---- MODULE Spec2Model ----
(***************************************************************************)
(* Model of the Deck and Session classes of                                *)
(* Flashcards/task/flashcards/flashcards.py.                               *)
(*                                                                         *)
(* A Python dict is modelled as the sequence of its <<key, value>> items   *)
(* in insertion order (keys are unique), because import_deck iterates the  *)
(* dicts and its outcome depends on that order.  A Flashcard is a record   *)
(* [term, definition].  A Deck is the record of its three dicts.  Every    *)
(* method is an operator from the deck before the call (and the            *)
(* arguments) to [deck, raised, ret]: the deck after the call, whether the *)
(* call left by an exception, and the value returned otherwise.            *)
(*                                                                         *)
(* Spec drives the methods of one Deck with arbitrary arguments.           *)
(* SessionSpec is the program as it is run: a Session is constructed and   *)
(* its loop reads actions; a step of a handler runs from one input() to    *)
(* the next.                                                               *)
(***************************************************************************)
EXTENDS Integers, Sequences, FiniteSets, TLC

\* ---------------------------------------------------------------- bounds
\* The strings used as terms, as definitions and as quiz answers; "?" is an
\* answer that is no card's definition.
Terms == {"A", "B"}
Defs == {"1", "2"}
Answers == Defs \cup {"?"}
\* Cap of a mistake counter, size of an imported snapshot, largest imported count.
MaxMistakes == 2
MaxImport == 2
MaxImportStat == 1
\* Largest number typed at "How many times to ask?".
MaxAsks == 2

None == "None"

Flashcard(term, definition) == [term |-> term, definition |-> definition]
Cards == {Flashcard(t, d) : t \in Terms, d \in Defs}
NoCard == Flashcard(None, None)

\* ------------------------------------------------------------ Python dict
EmptyDict == << >>

dict_keys(d) == {d[i][1] : i \in DOMAIN d}

dict_contains(d, k) == \E i \in DOMAIN d : d[i][1] = k

dict_getitem(d, k) == d[CHOOSE i \in DOMAIN d : d[i][1] = k][2]

dict_setitem(d, k, v) ==
    IF dict_contains(d, k)
    THEN [i \in DOMAIN d |-> IF d[i][1] = k THEN <<k, v>> ELSE d[i]]
    ELSE Append(d, <<k, v>>)

dict_delitem(d, k) == SelectSeq(d, LAMBDA item : item[1] # k)

\* ------------------------------------------------------------------ Deck
MkDeck(t2d, d2t, t2m) ==
    [term_to_definition |-> t2d, definition_to_term |-> d2t, term_to_mistakes |-> t2m]

Deck__init__ == MkDeck(EmptyDict, EmptyDict, EmptyDict)

Deck__len__(D) == Len(D.term_to_definition)

\* A value returned by a method.  Python values of different types are kept
\* in one record shape, one field per type: the int of import_deck, the
\* (bool, str-or-None) pair of ask, the (dict, int) pair of export_deck, the
\* Deck object of the constructor, the (list, int) pair of get_hardest_cards,
\* the Flashcard of the get_ methods; a field that is not used keeps its
\* default.
NoValue ==
    [int |-> 0, bool |-> FALSE, str |-> None, dict |-> EmptyDict, deck |-> Deck__init__,
     list |-> << >>, card |-> NoCard]

IntValue(n) == [NoValue EXCEPT !.int = n]
AskValue(is_correct, term) == [NoValue EXCEPT !.bool = is_correct, !.str = term]
ExportValue(json_string, cards_exported) ==
    [NoValue EXCEPT !.dict = json_string, !.int = cards_exported]
DeckValue(D) == [NoValue EXCEPT !.deck = D]
HardestValue(hardest_cards, max_mistakes) ==
    [NoValue EXCEPT !.list = hardest_cards, !.int = max_mistakes]
CardValue(flashcard) == [NoValue EXCEPT !.card = flashcard]

Return(D, value) == [deck |-> D, raised |-> FALSE, ret |-> value]
Raise(D) == [deck |-> D, raised |-> TRUE, ret |-> NoValue]

\* get_by_term: the card of a term, KeyError when the term is no key.
get_by_term(D, term) ==
    IF dict_contains(D.term_to_definition, term)
    THEN Return(D, CardValue(Flashcard(term, dict_getitem(D.term_to_definition, term))))
    ELSE Raise(D)

\* get_by_definition looking the definition up among the terms.
get_by_definition_in_terms(D, definition) ==
    IF dict_contains(D.term_to_definition, definition)
    THEN Return(D, CardValue(Flashcard(dict_getitem(D.term_to_definition, definition),
                                       definition)))
    ELSE Raise(D)

\* get_by_definition: the card of a definition, KeyError when the definition
\* is no key of definition_to_term.
get_by_definition(D, definition) ==
    IF dict_contains(D.definition_to_term, definition)
    THEN Return(D, CardValue(Flashcard(dict_getitem(D.definition_to_term, definition),
                                       definition)))
    ELSE Raise(D)

\* get_random_card: every outcome random.choice can have, one per item of
\* term_to_definition; on an empty deck random.choice raises IndexError.
get_random_card(D) ==
    IF D.term_to_definition = EmptyDict
    THEN {Raise(D)}
    ELSE {Return(D, CardValue(Flashcard(D.term_to_definition[i][1],
                                        D.term_to_definition[i][2])))
          : i \in DOMAIN D.term_to_definition}

\* insert_card with the test on the definition left out.
insert_card_term_only(D, flashcard) ==
    IF dict_contains(D.term_to_definition, flashcard.term)
    THEN Raise(D)
    ELSE Return(
           MkDeck(dict_setitem(D.term_to_definition, flashcard.term, flashcard.definition),
                  dict_setitem(D.definition_to_term, flashcard.definition, flashcard.term),
                  dict_setitem(D.term_to_mistakes, flashcard.term, 0)),
           NoValue)

insert_card(D, flashcard) ==
    IF \/ dict_contains(D.term_to_definition, flashcard.term)
       \/ dict_contains(D.definition_to_term, flashcard.definition)
    THEN Raise(D)
    ELSE Return(
           MkDeck(dict_setitem(D.term_to_definition, flashcard.term, flashcard.definition),
                  dict_setitem(D.definition_to_term, flashcard.definition, flashcard.term),
                  dict_setitem(D.term_to_mistakes, flashcard.term, 0)),
           NoValue)

\* remove_card with the del of definition_to_term moved to the front.
remove_card_definition_first(D, flashcard) ==
    IF ~dict_contains(D.definition_to_term, flashcard.definition)
    THEN Raise(D)
    ELSE LET D1 == [D EXCEPT !.definition_to_term = dict_delitem(@, flashcard.definition)]
         IN  IF ~dict_contains(D1.term_to_definition, flashcard.term)
             THEN Raise(D1)
             ELSE LET D2 == [D1 EXCEPT !.term_to_definition = dict_delitem(@, flashcard.term)]
                  IN  IF ~dict_contains(D2.term_to_mistakes, flashcard.term)
                      THEN Raise(D2)
                      ELSE Return([D2 EXCEPT !.term_to_mistakes =
                                                 dict_delitem(@, flashcard.term)], NoValue)

\* remove_card that forgets the mistake count.
remove_card_keeps_mistakes(D, flashcard) ==
    IF ~dict_contains(D.term_to_definition, flashcard.term)
    THEN Raise(D)
    ELSE LET D1 == [D EXCEPT !.term_to_definition = dict_delitem(@, flashcard.term)]
         IN  IF ~dict_contains(D1.definition_to_term, flashcard.definition)
             THEN Raise(D1)
             ELSE Return([D1 EXCEPT !.definition_to_term =
                                        dict_delitem(@, flashcard.definition)], NoValue)

\* The three del statements run in order; a KeyError from any of them leaves
\* the deletions already made in place.
remove_card(D, flashcard) ==
    IF ~dict_contains(D.term_to_definition, flashcard.term)
    THEN Raise(D)
    ELSE LET D1 == [D EXCEPT !.term_to_definition = dict_delitem(@, flashcard.term)]
         IN  IF ~dict_contains(D1.term_to_mistakes, flashcard.term)
             THEN Raise(D1)
             ELSE LET D2 == [D1 EXCEPT !.term_to_mistakes = dict_delitem(@, flashcard.term)]
                  IN  IF ~dict_contains(D2.definition_to_term, flashcard.definition)
                      THEN Raise(D2)
                      ELSE Return([D2 EXCEPT !.definition_to_term =
                                                 dict_delitem(@, flashcard.definition)], NoValue)

\* A dict comprehension: the items are assigned one after the other, so a
\* repeated key keeps its first position and its last value.
RECURSIVE dict_from_items(_)
dict_from_items(items) ==
    IF items = << >>
    THEN EmptyDict
    ELSE LET n == Len(items)
         IN  dict_setitem(dict_from_items(SubSeq(items, 1, n - 1)), items[n][1], items[n][2])

\* The loop of import_deck over the old cards, from item i on: every old
\* card is inserted again, its old mistake count restored; a KeyError of
\* insert_card is swallowed and the card is skipped.
RECURSIVE import_deck_reinsert(_, _, _, _)
import_deck_reinsert(D, old_term_to_definition, old_term_to_stats, i) ==
    IF i > Len(old_term_to_definition)
    THEN D
    ELSE LET term == old_term_to_definition[i][1]
             definition == old_term_to_definition[i][2]
             r == insert_card(D, Flashcard(term, definition))
             D1 == IF r.raised \/ ~dict_contains(old_term_to_stats, term)
                   THEN r.deck
                   ELSE [r.deck EXCEPT !.term_to_mistakes =
                            dict_setitem(@, term, dict_getitem(old_term_to_stats, term))]
         IN  import_deck_reinsert(D1, old_term_to_definition, old_term_to_stats, i + 1)

\* The deck import_deck leaves: json_string is a dict term -> <<definition, stats>>.
import_deck_state(D, json_string) ==
    LET imported_deck == json_string
        old_term_to_definition == D.term_to_definition
        old_term_to_stats == D.term_to_mistakes
        term_to_definition ==
            dict_from_items([i \in DOMAIN imported_deck |->
                                <<imported_deck[i][1], imported_deck[i][2][1]>>])
        term_to_mistakes ==
            dict_from_items([i \in DOMAIN imported_deck |->
                                <<imported_deck[i][1], imported_deck[i][2][2]>>])
        definition_to_term ==
            dict_from_items([i \in DOMAIN term_to_definition |->
                                <<term_to_definition[i][2], term_to_definition[i][1]>>])
    IN  import_deck_reinsert(MkDeck(term_to_definition, definition_to_term, term_to_mistakes),
                             old_term_to_definition, old_term_to_stats, 1)

\* import_deck returning len(self) instead of len(imported_deck).
import_deck_returns_len_self(D, json_string) ==
    LET D1 == import_deck_state(D, json_string)
    IN  Return(D1, IntValue(Deck__len__(D1)))

\* A value that is not a 2-element sequence cannot be unpacked into
\* (definition, stats): the first comprehension raises ValueError before
\* anything is assigned.
import_deck(D, json_string) ==
    IF \E i \in DOMAIN json_string : Len(json_string[i][2]) # 2
    THEN Raise(D)
    ELSE Return(import_deck_state(D, json_string), IntValue(Len(json_string)))

\* export_deck writing 0 for every mistake count.
export_deck_without_stats(D) ==
    Return(D, ExportValue(
                 [i \in DOMAIN D.term_to_definition |->
                     <<D.term_to_definition[i][1], <<D.term_to_definition[i][2], 0>> >>],
                 Deck__len__(D)))

export_deck(D) ==
    IF \E i \in DOMAIN D.term_to_definition :
           ~dict_contains(D.term_to_mistakes, D.term_to_definition[i][1])
    THEN Raise(D)
    ELSE Return(D, ExportValue(
                      [i \in DOMAIN D.term_to_definition |->
                          <<D.term_to_definition[i][1],
                            <<D.term_to_definition[i][2],
                              dict_getitem(D.term_to_mistakes, D.term_to_definition[i][1])>> >>],
                      Deck__len__(D)))

\* Deck(json_deck): an empty deck, then import_deck unless json_deck is falsy
\* (None or an empty dict).
Deck(json_deck) ==
    IF json_deck = EmptyDict
    THEN Deck__init__
    ELSE import_deck(Deck__init__, json_deck).deck

\* ask with the increment moved above the comparison.
ask_counts_before_comparing(D, flashcard, answer) ==
    IF ~dict_contains(D.term_to_mistakes, flashcard.term)
    THEN Raise(D)
    ELSE LET D1 == [D EXCEPT !.term_to_mistakes =
                        dict_setitem(@, flashcard.term, dict_getitem(@, flashcard.term) + 1)]
         IN  IF answer = flashcard.definition
             THEN Return(D1, AskValue(TRUE, answer))
             ELSE Return(D1, AskValue(FALSE, IF dict_contains(D.definition_to_term, answer)
                                             THEN dict_getitem(D.definition_to_term, answer)
                                             ELSE None))

\* ask counting the mistake for the term the answer belongs to.
ask_counts_matched_term(D, flashcard, answer) ==
    IF answer = flashcard.definition
    THEN Return(D, AskValue(TRUE, answer))
    ELSE IF ~dict_contains(D.definition_to_term, answer)
         THEN Return(D, AskValue(FALSE, None))
         ELSE LET term == dict_getitem(D.definition_to_term, answer)
              IN  IF ~dict_contains(D.term_to_mistakes, term)
                  THEN Raise(D)
                  ELSE Return([D EXCEPT !.term_to_mistakes =
                                  dict_setitem(@, term, dict_getitem(@, term) + 1)],
                              AskValue(FALSE, term))

\* ask with the increment moved into the try block, after the lookup.
ask_counts_after_lookup(D, flashcard, answer) ==
    IF answer = flashcard.definition
    THEN Return(D, AskValue(TRUE, answer))
    ELSE IF ~dict_contains(D.definition_to_term, answer)
         THEN Return(D, AskValue(FALSE, None))
         ELSE IF ~dict_contains(D.term_to_mistakes, flashcard.term)
              THEN Raise(D)
              ELSE Return([D EXCEPT !.term_to_mistakes =
                              dict_setitem(@, flashcard.term,
                                           dict_getitem(@, flashcard.term) + 1)],
                          AskValue(FALSE, dict_getitem(D.definition_to_term, answer)))

ask(D, flashcard, answer) ==
    IF answer = flashcard.definition
    THEN Return(D, AskValue(TRUE, answer))
    ELSE IF ~dict_contains(D.term_to_mistakes, flashcard.term)
         THEN Raise(D)
         ELSE Return([D EXCEPT !.term_to_mistakes =
                         dict_setitem(@, flashcard.term, dict_getitem(@, flashcard.term) + 1)],
                     AskValue(FALSE, IF dict_contains(D.definition_to_term, answer)
                                     THEN dict_getitem(D.definition_to_term, answer)
                                     ELSE None))

\* max(values, default=0)
max_default(values, default) ==
    IF values = {} THEN default ELSE CHOOSE m \in values : \A v \in values : v <= m

\* The terms of the items of a dict that satisfy a test, in dict order.
RECURSIVE keys_with_value(_, _)
keys_with_value(d, v) ==
    IF d = << >>
    THEN << >>
    ELSE IF Head(d)[2] = v
         THEN <<Head(d)[1]>> \o keys_with_value(Tail(d), v)
         ELSE keys_with_value(Tail(d), v)

\* get_hardest_cards keeping only the first term that has the maximum.
get_hardest_cards_first_only(D) ==
    LET max_mistakes == max_default({D.term_to_mistakes[i][2] : i \in DOMAIN D.term_to_mistakes}, 0)
    IN  IF max_mistakes = 0
        THEN Return(D, HardestValue(<< >>, 0))
        ELSE Return(D, HardestValue(
                          SubSeq(keys_with_value(D.term_to_mistakes, max_mistakes), 1, 1),
                          max_mistakes))

get_hardest_cards(D) ==
    LET max_mistakes == max_default({D.term_to_mistakes[i][2] : i \in DOMAIN D.term_to_mistakes}, 0)
    IN  IF max_mistakes = 0
        THEN Return(D, HardestValue(<< >>, 0))
        ELSE Return(D, HardestValue(keys_with_value(D.term_to_mistakes, max_mistakes),
                                    max_mistakes))

\* reset_stats taking the keys of definition_to_term.
reset_stats_from_definitions(D) ==
    Return([D EXCEPT !.term_to_mistakes =
               dict_from_items([i \in DOMAIN D.definition_to_term |->
                                   <<D.definition_to_term[i][1], 0>>])],
           NoValue)

\* dict.fromkeys(self.term_to_definition.keys(), 0)
reset_stats(D) ==
    Return([D EXCEPT !.term_to_mistakes =
               dict_from_items([i \in DOMAIN D.term_to_definition |->
                                   <<D.term_to_definition[i][1], 0>>])],
           NoValue)

\* ------------------------------------------------------- inputs of import
\* The snapshots handed to import_deck: dicts of at most MaxImport entries
\* term -> <<definition, stats>>, in any key order.
Entries == {<<t, <<d, n>> >> : t \in Terms, d \in Defs, n \in 0..MaxImportStat}

Snapshots ==
    UNION {{s \in [1..k -> Entries] : \A i, j \in 1..k : i # j => s[i][1] # s[j][1]}
           : k \in 0..MaxImport}

\* ---------------------------------------------------- inputs of a session
\* What open(file_name, "r") and json.load find: no file, a file that is not
\* JSON, JSON that is not an object, or an object of at most MaxImport
\* entries whose values are [definition, stats] pairs, with stats 0 or -1,
\* or one-element lists [definition].
FileValues ==
    {<<d>> : d \in Defs} \cup {<<d, n>> : d \in Defs, n \in (0 - 1)..0}

FileEntries == {<<t, v>> : t \in Terms, v \in FileValues}

JsonObjects ==
    UNION {{s \in [1..k -> FileEntries] : \A i, j \in 1..k : i # j => s[i][1] # s[j][1]}
           : k \in 0..MaxImport}

File(kind, json) == [kind |-> kind, json |-> json]

\* The shape of a snapshot, "term: (definition, stats)" with stats a count:
\* every value is a pair whose second element is 0 or more.
ExpectedShape(json) ==
    \A i \in DOMAIN json : Len(json[i][2]) = 2 /\ json[i][2][2] >= 0

Files ==
    {File(kind, EmptyDict) : kind \in {"missing", "text", "list"}}
    \cup {File("dict", json) : json \in JsonObjects}

\* The file names given to export and to --export_to, the values of
\* --import_from and --export_to (None when the option is absent).
FileNames == {"saved.json", "copy.json"}
ImportFrom == {None, "deck.json"}
ExportTo == {None, "", "saved.json"}

\* What is typed at "How many times to ask?": a number or something else,
\* and int() of it (ValueError when it is no number).
Responses ==
    {[is_number |-> FALSE, number |-> 0]}
    \cup {[is_number |-> TRUE, number |-> n] : n \in (0 - 1)..MaxAsks}

int(response) ==
    IF response.is_number
    THEN Return(Deck__init__, IntValue(response.number))
    ELSE Raise(Deck__init__)

\* What is typed at the prompt of loop: the nine actions, a word that is no
\* action, and text that is no Python name.
actions ==
    {"add", "remove", "import", "export", "ask", "exit", "log", "hardest card",
     "reset stats"}
OtherActions == {"study", "what?"}

\* eval(f"self._{action}()") for a text that is no action: AttributeError
\* for a name the Session does not have, SyntaxError for text that does not
\* parse.
eval_raises(action) ==
    IF action = "what?" THEN "SyntaxError" ELSE "AttributeError"

\* ----------------------------------------------------------------- state
\* The deck (of the session), the latest call on it (in SessionSpec: the
\* latest call of the latest action, NoCall if it made none), and the session: pc is
\* where the program stands ("main" before the Session is constructed,
\* "loop" at the prompt of loop, "add_term", "add_definition", "ask_count",
\* "ask_answer" at the prompts of _add and _ask, "ask_draw" at the head of
\* the for loop of _ask, "exited" after quit(), "crashed" after an exception
\* that nothing catches); action is the text read at the last prompt of
\* loop; export_to is Session.export_to; frame holds the locals of the
\* running handler; message is what the latest step printed through
\* print_and_log (None if nothing); opened is the latest open() of the
\* latest action (its mode, whether it succeeded, for a read what the file
\* holds and whether that is an object of the expected shape) and dumped the
\* json.dump calls of the latest action.  SessionSpec does not keep the
\* snapshot of an import in last.
VARIABLES term_to_definition, definition_to_term, term_to_mistakes, last,
          pc, action, export_to, frame, message, opened, dumped

deckvars == <<term_to_definition, definition_to_term, term_to_mistakes>>
sessionvars == <<pc, action, export_to, frame, message, opened, dumped>>
vars == <<term_to_definition, definition_to_term, term_to_mistakes, last,
          pc, action, export_to, frame, message, opened, dumped>>

NoFrame == [term |-> None, flashcard |-> NoCard, asks |-> 0]
NotOpened == [mode |-> None, ok |-> FALSE, kind |-> None, expected |-> FALSE]
Opened(mode, ok, kind, expected) ==
    [mode |-> mode, ok |-> ok, kind |-> kind, expected |-> expected]

\* The deck of the session, as a Deck record.
self == MkDeck(term_to_definition, definition_to_term, term_to_mistakes)

\* The terms that are in the deck before and after a call and whose mistake
\* count is larger after it.
Grew(D, D1) ==
    {t \in dict_keys(D.term_to_mistakes) \cap dict_keys(D1.term_to_mistakes) :
        dict_getitem(D1.term_to_mistakes, t) > dict_getitem(D.term_to_mistakes, t)}

\* last records the latest call on the deck: the method, its arguments (the
\* card, the answer, the snapshot), whether it raised, and what it returned.
\* Three observations of the call are kept with it: grew, the terms whose
\* count the call raised; undoes, whether the call is a remove_card of the
\* card that the call before it inserted; before, the deck before the call
\* for insert_card and reset_stats, and the deck before that insert_card for
\* a remove_card that undoes it (empty for every other call, to keep the
\* state space small).  A fourth, streak, counts wrong answers in a row: for
\* an ask on a card of the deck with an answer that is neither its definition
\* nor the definition of any card of the deck, 1 if the count of the card was
\* 0 before the call, and one more than the streak of the call before it if
\* that was such an ask on the same card; for a get_hardest_cards, the streak
\* of the ask right before it, whose card it keeps; 0 for every other call.
CallWith(op, card, answer, json_string, r) ==
    LET undoes == /\ op = "remove_card"
                  /\ last.op = "insert_card"
                  /\ ~last.raised
                  /\ last.card = card
        unmatched == /\ op = "ask"
                     /\ ~r.raised
                     /\ dict_contains(term_to_definition, card.term)
                     /\ dict_getitem(term_to_definition, card.term) = card.definition
                     /\ \A i \in DOMAIN term_to_definition : term_to_definition[i][2] # answer
        streak == IF unmatched
                  THEN IF last.op = "ask" /\ last.card = card /\ last.streak > 0
                       THEN last.streak + 1
                       ELSE IF dict_getitem(term_to_mistakes, card.term) = 0 THEN 1 ELSE 0
                  ELSE IF op = "get_hardest_cards" /\ last.op = "ask"
                       THEN last.streak
                       ELSE 0
    IN  [op |-> op,
         card |-> IF op = "get_hardest_cards" /\ streak > 0 THEN last.card ELSE card,
         answer |-> answer, json_string |-> json_string,
         raised |-> r.raised, ret |-> r.ret, streak |-> streak,
         grew |-> Grew(self, r.deck),
         undoes |-> undoes,
         before |-> IF op \in {"insert_card", "reset_stats"} THEN self
                    ELSE IF undoes THEN last.before
                    ELSE Deck__init__]

Call(op, card, answer, r) == CallWith(op, card, answer, EmptyDict, r)

\* No call yet.
NoCall ==
    [op |-> "init", card |-> NoCard, answer |-> None, json_string |-> EmptyDict,
     raised |-> FALSE, ret |-> NoValue, streak |-> 0, grew |-> {}, undoes |-> FALSE,
     before |-> Deck__init__]

Becomes(D) ==
    /\ term_to_definition' = D.term_to_definition
    /\ definition_to_term' = D.definition_to_term
    /\ term_to_mistakes' = D.term_to_mistakes

Init ==
    /\ term_to_definition = EmptyDict
    /\ definition_to_term = EmptyDict
    /\ term_to_mistakes = EmptyDict
    /\ last = NoCall
    /\ pc = "main"
    /\ action = None
    /\ export_to = None
    /\ frame = NoFrame
    /\ message = None
    /\ opened = NotOpened
    /\ dumped = << >>

InsertCard(card) ==
    LET r == insert_card(self, card)
    IN  /\ Becomes(r.deck)
        /\ last' = Call("insert_card", card, None, r)
        /\ UNCHANGED sessionvars

RemoveCard(card) ==
    LET r == remove_card(self, card)
    IN  /\ Becomes(r.deck)
        /\ last' = Call("remove_card", card, None, r)
        /\ UNCHANGED sessionvars

ImportDeck(json_string) ==
    LET r == import_deck(self, json_string)
    IN  /\ Becomes(r.deck)
        /\ last' = CallWith("import_deck", NoCard, None, json_string, r)
        /\ UNCHANGED sessionvars

ExportDeck ==
    LET r == export_deck(self)
    IN  /\ Becomes(r.deck)
        /\ last' = Call("export_deck", NoCard, None, r)
        /\ UNCHANGED sessionvars

\* A new Deck built from the snapshot export_deck has just returned; the
\* new object is the value of the call, the session's deck is not touched.
NewDeck ==
    /\ last.op = "export_deck"
    /\ ~last.raised
    /\ UNCHANGED deckvars
    /\ last' = Call("Deck", NoCard, None, Return(self, DeckValue(Deck(last.ret.dict))))
    /\ UNCHANGED sessionvars

\* The mistake counter is capped at MaxMistakes to keep the model finite.
Ask(card, answer) ==
    LET r == ask(self, card, answer)
    IN  /\ \A i \in DOMAIN r.deck.term_to_mistakes :
               r.deck.term_to_mistakes[i][2] <= MaxMistakes
        /\ Becomes(r.deck)
        /\ last' = Call("ask", card, answer, r)
        /\ UNCHANGED sessionvars

ResetStats ==
    LET r == reset_stats(self)
    IN  /\ Becomes(r.deck)
        /\ last' = Call("reset_stats", NoCard, None, r)
        /\ UNCHANGED sessionvars

GetHardestCards ==
    LET r == get_hardest_cards(self)
    IN  /\ Becomes(r.deck)
        /\ last' = Call("get_hardest_cards", NoCard, None, r)
        /\ UNCHANGED sessionvars

Next ==
    \/ \E card \in Cards : InsertCard(card)
    \/ \E card \in Cards : RemoveCard(card)
    \/ \E json_string \in Snapshots : ImportDeck(json_string)
    \/ ExportDeck
    \/ NewDeck
    \/ \E card \in Cards, answer \in Answers : Ask(card, answer)
    \/ ResetStats
    \/ GetHardestCards

Spec == Init /\ [][Next]_vars

\* --------------------------------------------------------------- Session
\* Session._ask, lines 237-239: the handler returns at once on an empty deck.
no_flashcards_unchecked(D) == FALSE

no_flashcards(D) == Deck__len__(D) = 0

\* Session._import on a file: FileNotFoundError is answered with a message;
\* every other exception of json.load or import_deck goes to logger.warning,
\* whose only handler writes to the StringIO log, so nothing is printed.
\* called tells whether import_deck was reached, r is its outcome.
_import(D, file) ==
    IF file.kind = "missing"
    THEN [called |-> FALSE, r |-> Return(D, NoValue), message |-> "File not found."]
    ELSE IF file.kind = "text"
         THEN [called |-> FALSE, r |-> Return(D, NoValue), message |-> None]
         ELSE LET r == IF file.kind = "list" THEN Raise(D) ELSE import_deck(D, file.json)
              IN  [called |-> TRUE, r |-> r,
                   message |-> IF r.raised THEN None ELSE "cards have been loaded."]

\* Session._export to a file name: export_deck, then open(file_name, "w") and
\* json.dump; an exception of either is not caught.
_export(D, file_name, writable) ==
    LET r == export_deck(D)
    IN  [r |-> r,
         opened |-> IF r.raised THEN NotOpened ELSE Opened("w", writable, None, FALSE),
         dumped |-> IF r.raised \/ ~writable
                    THEN << >>
                    ELSE <<[file_name |-> file_name, json_string |-> r.ret.dict]>>,
         raised |-> r.raised \/ ~writable,
         message |-> IF r.raised \/ ~writable THEN None ELSE "cards have been saved."]

\* A handler is entered from the prompt of loop.
Enter(name) ==
    /\ pc = "loop"
    /\ action' = name

\* Session(import_from, export_to), lines 147-150, up to the first prompt of loop.
Session__init__(import_from, file, to) ==
    /\ pc = "main"
    /\ export_to' = to
    /\ UNCHANGED <<action, frame, dumped>>
    /\ pc' = "loop"
    /\ IF import_from = None
       THEN /\ file.kind = "missing"
            /\ UNCHANGED <<deckvars, last, message, opened>>
       ELSE LET i == _import(Deck__init__, file)
            IN  /\ Becomes(i.r.deck)
                /\ last' = IF i.called
                           THEN Call("import_deck", NoCard, None, i.r)
                           ELSE last
                /\ message' = i.message
                /\ opened' = Opened("r", file.kind # "missing", file.kind,
                                 file.kind = "dict" /\ ExpectedShape(file.json))

\* loop, lines 166-169, for a text that is no action.
Session_loop(text) ==
    /\ Enter(text)
    /\ pc' = IF eval_raises(text) = "AttributeError" THEN "loop" ELSE "crashed"
    /\ message' = IF eval_raises(text) = "AttributeError" THEN "Invalid action!" ELSE None
    /\ opened' = NotOpened
    /\ dumped' = << >>
    /\ last' = NoCall
    /\ UNCHANGED <<deckvars, export_to, frame>>

\* _add up to the prompt "The card:".
Session_add ==
    /\ Enter("add")
    /\ pc' = "add_term"
    /\ message' = None
    /\ opened' = NotOpened
    /\ dumped' = << >>
    /\ last' = NoCall
    /\ UNCHANGED <<deckvars, export_to, frame>>

\* _add, lines 173-181: a term that get_by_term finds is asked again.
Session_add_term(term) ==
    LET r == get_by_term(self, term)
    IN  /\ pc = "add_term"
        /\ last' = Call("get_by_term", Flashcard(term, None), None, r)
        /\ IF r.raised
           THEN pc' = "add_definition" /\ frame' = [frame EXCEPT !.term = term]
           ELSE pc' = "add_term" /\ UNCHANGED frame
        /\ UNCHANGED <<deckvars, action, export_to, message, opened, dumped>>

\* _add, lines 182-196: a definition that get_by_definition finds is asked
\* again; otherwise the card is inserted, and a KeyError of insert_card is
\* caught by nobody.
Session_add_definition(definition) ==
    LET r == get_by_definition(self, definition)
        new_card == Flashcard(frame.term, definition)
        r2 == insert_card(self, new_card)
    IN  /\ pc = "add_definition"
        /\ IF ~r.raised
           THEN /\ last' = Call("get_by_definition", Flashcard(None, definition), None, r)
                /\ UNCHANGED <<deckvars, pc, frame, message>>
           ELSE /\ Becomes(r2.deck)
                /\ last' = Call("insert_card", new_card, None, r2)
                /\ pc' = IF r2.raised THEN "crashed" ELSE "loop"
                /\ message' = IF r2.raised THEN None ELSE "The pair has been added."
                /\ frame' = NoFrame
        /\ UNCHANGED <<action, export_to, opened, dumped>>

\* _remove: the card get_by_term returns is removed; a KeyError of either
\* call is answered with a message.
Session_remove(term) ==
    LET r == get_by_term(self, term)
        r2 == remove_card(self, r.ret.card)
    IN  /\ Enter("remove")
        /\ pc' = "loop"
        /\ IF r.raised
           THEN /\ last' = Call("get_by_term", Flashcard(term, None), None, r)
                /\ message' = "there is no such card."
                /\ UNCHANGED deckvars
           ELSE /\ Becomes(r2.deck)
                /\ last' = Call("remove_card", r.ret.card, None, r2)
                /\ message' = IF r2.raised THEN "there is no such card."
                              ELSE "The card has been removed"
        /\ opened' = NotOpened
        /\ dumped' = << >>
        /\ UNCHANGED <<export_to, frame>>

\* _import with the file name read at its prompt.
Session_import(file) ==
    LET i == _import(self, file)
    IN  /\ Enter("import")
        /\ pc' = "loop"
        /\ Becomes(i.r.deck)
        /\ last' = IF i.called
                   THEN Call("import_deck", NoCard, None, i.r)
                   ELSE NoCall
        /\ message' = i.message
        /\ opened' = Opened("r", file.kind # "missing", file.kind,
                                 file.kind = "dict" /\ ExpectedShape(file.json))
        /\ dumped' = << >>
        /\ UNCHANGED <<export_to, frame>>

\* _export with the file name read at its prompt.
Session_export(file_name, writable) ==
    LET e == _export(self, file_name, writable)
    IN  /\ Enter("export")
        /\ pc' = IF e.raised THEN "crashed" ELSE "loop"
        /\ last' = Call("export_deck", NoCard, None, e.r)
        /\ message' = e.message
        /\ opened' = e.opened
        /\ dumped' = e.dumped
        /\ UNCHANGED <<deckvars, export_to, frame>>

\* _ask up to the prompt "How many times to ask?".
Session_ask ==
    /\ Enter("ask")
    /\ IF no_flashcards(self)
       THEN pc' = "loop" /\ message' = "There are no flashcards in the deck."
       ELSE pc' = "ask_count" /\ message' = None
    /\ opened' = NotOpened
    /\ dumped' = << >>
    /\ last' = NoCall
    /\ UNCHANGED <<deckvars, export_to, frame>>

\* _ask, lines 241-248: the number is asked again until int() takes it; the
\* for loop runs range(asks) times, not at all for 0 and negative numbers.
Session_ask_count(response) ==
    LET r == int(response)
    IN  /\ pc = "ask_count"
        /\ IF r.raised
           THEN pc' = "ask_count" /\ message' = "Enter a number" /\ UNCHANGED frame
           ELSE /\ message' = None
                /\ IF r.ret.int > 0
                   THEN pc' = "ask_draw" /\ frame' = [frame EXCEPT !.asks = r.ret.int]
                   ELSE pc' = "loop" /\ UNCHANGED frame
        /\ UNCHANGED <<deckvars, last, action, export_to, opened, dumped>>

\* _ask, line 249: a card is drawn; the IndexError of random.choice on an
\* empty deck is caught by nobody.
Session_ask_draw ==
    /\ pc = "ask_draw"
    /\ \E r \in get_random_card(self) :
           /\ last' = Call("get_random_card", r.ret.card, None, r)
           /\ pc' = IF r.raised THEN "crashed" ELSE "ask_answer"
           /\ frame' = [frame EXCEPT !.flashcard = r.ret.card]
    /\ message' = None
    /\ UNCHANGED <<deckvars, action, export_to, opened, dumped>>

\* _ask, lines 250-265: the answer is put to Deck.ask, whose KeyError is
\* caught by nobody.  The mistake counter is capped as in Ask.
Session_ask_answer(answer) ==
    LET r == ask(self, frame.flashcard, answer)
    IN  /\ pc = "ask_answer"
        /\ \A i \in DOMAIN r.deck.term_to_mistakes :
               r.deck.term_to_mistakes[i][2] <= MaxMistakes
        /\ Becomes(r.deck)
        /\ last' = Call("ask", frame.flashcard, answer, r)
        /\ IF r.raised
           THEN pc' = "crashed" /\ message' = None /\ UNCHANGED frame
           ELSE /\ message' = IF r.ret.bool THEN "Correct!" ELSE "Wrong."
                /\ IF frame.asks > 1
                   THEN pc' = "ask_draw" /\ frame' = [NoFrame EXCEPT !.asks = frame.asks - 1]
                   ELSE pc' = "loop" /\ frame' = NoFrame
        /\ UNCHANGED <<action, export_to, opened, dumped>>

\* _exit: _export(self.export_to) when export_to is truthy (neither None nor
\* ""), then "Bye bye!" and quit().
Session_exit(writable) ==
    LET e == _export(self, export_to, writable)
    IN  /\ Enter("exit")
        /\ IF export_to \in {None, ""}
           THEN /\ pc' = "exited"
                /\ message' = "Bye bye!"
                /\ opened' = NotOpened
                /\ dumped' = << >>
                /\ writable
                /\ last' = NoCall
           ELSE /\ pc' = IF e.raised THEN "crashed" ELSE "exited"
                /\ message' = IF e.raised THEN None ELSE "Bye bye!"
                /\ opened' = e.opened
                /\ dumped' = e.dumped
                /\ last' = Call("export_deck", NoCard, None, e.r)
        /\ UNCHANGED <<deckvars, export_to, frame>>

\* _log: open(file_name, "w") is not guarded either.
Session_log(writable) ==
    /\ Enter("log")
    /\ pc' = IF writable THEN "loop" ELSE "crashed"
    /\ message' = IF writable THEN "The log has been saved." ELSE None
    /\ opened' = Opened("w", writable, None, FALSE)
    /\ dumped' = << >>
    /\ last' = NoCall
    /\ UNCHANGED <<deckvars, export_to, frame>>

\* _hardest_card: the message depends on the number of terms returned.
Session_hardest_card ==
    LET r == get_hardest_cards(self)
    IN  /\ Enter("hardest card")
        /\ pc' = "loop"
        /\ last' = Call("get_hardest_cards", NoCard, None, r)
        /\ message' = IF Len(r.ret.list) = 0 THEN "There are no cards with errors."
                      ELSE IF Len(r.ret.list) = 1 THEN "The hardest card is"
                      ELSE "The hardest cards are"
        /\ opened' = NotOpened
        /\ dumped' = << >>
        /\ UNCHANGED <<deckvars, export_to, frame>>

Session_reset_stats ==
    LET r == reset_stats(self)
    IN  /\ Enter("reset stats")
        /\ pc' = "loop"
        /\ Becomes(r.deck)
        /\ last' = Call("reset_stats", NoCard, None, r)
        /\ message' = "Card statistics have been reset."
        /\ opened' = NotOpened
        /\ dumped' = << >>
        /\ UNCHANGED <<export_to, frame>>

SessionNext ==
    \/ \E import_from \in ImportFrom, file \in Files, to \in ExportTo :
           Session__init__(import_from, file, to)
    \/ \E text \in OtherActions : Session_loop(text)
    \/ Session_add
    \/ \E term \in Terms : Session_add_term(term)
    \/ \E definition \in Defs : Session_add_definition(definition)
    \/ \E term \in Terms : Session_remove(term)
    \/ \E file \in Files : Session_import(file)
    \/ \E file_name \in FileNames, writable \in BOOLEAN : Session_export(file_name, writable)
    \/ Session_ask
    \/ \E response \in Responses : Session_ask_count(response)
    \/ Session_ask_draw
    \/ \E answer \in Answers : Session_ask_answer(answer)
    \/ \E writable \in BOOLEAN : Session_exit(writable)
    \/ \E writable \in BOOLEAN : Session_log(writable)
    \/ Session_hardest_card
    \/ Session_reset_stats

SessionSpec == Init /\ [][SessionNext]_vars

\* ------------------------------------------------------------- properties
\* The items of a dict as a set, and the (term, definition, mistake count)
\* triples of a deck.
Items(d) == {d[i] : i \in DOMAIN d}

Triples(D) ==
    {<<D.term_to_definition[i][1], D.term_to_definition[i][2],
       dict_getitem(D.term_to_mistakes, D.term_to_definition[i][1])>>
     : i \in DOMAIN D.term_to_definition}

\* The card (term, definition) is a card of the deck whose term -> definition dict is t2d.
IsCardOf(t2d, card) ==
    dict_contains(t2d, card.term) /\ dict_getitem(t2d, card.term) = card.definition

\* C1: in every reachable state term_to_definition[t] = d if and only if
\* definition_to_term[d] = t (the two dicts are exact inverses).
C1_ExactInverses ==
    \A t \in Terms, d \in Defs :
        (dict_contains(term_to_definition, t) /\ dict_getitem(term_to_definition, t) = d)
        <=> (dict_contains(definition_to_term, d) /\ dict_getitem(definition_to_term, d) = t)

\* C2: in every reachable state term_to_definition and term_to_mistakes have
\* the same keys, every mistake count is a natural number, and the deck size,
\* the number of terms, the number of definitions in the inverse index and
\* the number of mistake counts are all equal.
C2_SameKeysAndSizes ==
    /\ dict_keys(term_to_definition) = dict_keys(term_to_mistakes)
    /\ \A i \in DOMAIN term_to_mistakes : term_to_mistakes[i][2] \in Nat
    /\ Deck__len__(self) = Cardinality(dict_keys(term_to_definition))
    /\ Deck__len__(self) = Cardinality(dict_keys(definition_to_term))
    /\ Deck__len__(self) = Cardinality(dict_keys(term_to_mistakes))

\* C3: every remove_card call, whatever its card holds, either succeeds with
\* the card of that term gone from all three dicts and every other entry
\* untouched, or fails with all three dicts as they were.
C3_RemoveCardAtomic ==
    [][last'.op = "remove_card" =>
          LET term == last'.card.term
          IN  \/ /\ ~last'.raised
                 /\ Items(term_to_definition') =
                        {item \in Items(term_to_definition) : item[1] # term}
                 /\ Items(term_to_mistakes') =
                        {item \in Items(term_to_mistakes) : item[1] # term}
                 /\ Items(definition_to_term') =
                        {item \in Items(definition_to_term) : item[2] # term}
              \/ /\ last'.raised
                 /\ UNCHANGED deckvars]_vars

C5_RemoveAbsentTerm ==
    [][(last'.op = "remove_card" /\ last'.card.term \notin dict_keys(term_to_definition)) =>
          (last'.raised /\ UNCHANGED deckvars)]_vars

\* C5 witness: a remove_card has just raised for a term that is not in the
\* deck while its definition field is the definition of another card, which
\* is still indexed.
C5_Witness ==
    /\ last.op = "remove_card"
    /\ last.raised
    /\ last.card.term \notin dict_keys(term_to_definition)
    /\ \E t \in Terms : IsCardOf(term_to_definition, Flashcard(t, last.card.definition))
    /\ last.card.definition \in dict_keys(definition_to_term)

\* A snapshot an export of a consistent deck can produce: distinct terms,
\* distinct definitions, counts that are natural numbers.
WellFormed(data) ==
    /\ \A i, j \in DOMAIN data : i # j => data[i][1] # data[j][1] /\ data[i][2][1] # data[j][2][1]
    /\ \A i \in DOMAIN data : data[i][2][2] \in Nat

\* The old cards that collide neither by term nor by definition with data.
Survivors(t2d, data) ==
    {item \in Items(t2d) :
        \A i \in DOMAIN data : data[i][1] # item[1] /\ data[i][2][1] # item[2]}

\* C6: after import_deck(data) with well-formed data the deck holds exactly
\* the cards of data, with the imported counts, and the old cards that collide
\* with data neither by term nor by definition, each with its old count.
C6_ImportMerge ==
    [][(last'.op = "import_deck" /\ WellFormed(last'.json_string)) =>
          LET data == last'.json_string
          IN  /\ Items(term_to_definition') =
                     {<<data[i][1], data[i][2][1]>> : i \in DOMAIN data}
                     \cup Survivors(term_to_definition, data)
              /\ Items(term_to_mistakes') =
                     {<<data[i][1], data[i][2][2]>> : i \in DOMAIN data}
                     \cup {<<item[1], dict_getitem(term_to_mistakes, item[1])>>
                           : item \in Survivors(term_to_definition, data)}]_vars

\* C7: import_deck(data) returns the number of entries of data, whatever the
\* deck held before and whatever it holds afterwards.
C7_ImportReturnsLenData ==
    [][last'.op = "import_deck" =>
          (~last'.raised /\ last'.ret = IntValue(Len(last'.json_string)))]_vars

\* C7 witness: an import has returned a count that is neither the size of
\* the deck before it was called nor the size after: one entry imported, one
\* old card kept.
C7_Witness ==
    /\ last.op = "import_deck"
    /\ Len(last.json_string) = 1
    /\ Deck__len__(self) = 2
    /\ \E i \in DOMAIN term_to_mistakes : term_to_mistakes[i][2] > MaxImportStat

\* C8: export_deck returns the number of cards of the deck, and a fresh Deck
\* built from the snapshot it returned holds exactly the (term, definition,
\* mistake count) triples of the exported deck.
C8_RoundTrip ==
    /\ (last.op = "export_deck" /\ ~last.raised) =>
           last.ret.int = Cardinality(Triples(self))
    /\ last.op = "Deck" => Triples(last.ret.deck) = Triples(self)

\* C8 witness: a fresh Deck has been built from the export of a deck of two
\* cards of which one has mistakes.
C8_Witness ==
    /\ last.op = "Deck"
    /\ Cardinality(Triples(last.ret.deck)) = 2
    /\ \E tr \in Triples(last.ret.deck) : tr[3] > 0

\* C9: ask on a card of the deck changes nothing when the answer is the
\* card's definition; otherwise the count of the card's term goes up by
\* exactly 1 and every other count and both indices are unchanged.
C9_AskEffect ==
    [][(last'.op = "ask" /\ IsCardOf(term_to_definition, last'.card)) =>
          LET term == last'.card.term
          IN  IF last'.answer = last'.card.definition
              THEN UNCHANGED deckvars
              ELSE /\ ~last'.raised
                   /\ dict_keys(term_to_mistakes') = dict_keys(term_to_mistakes)
                   /\ \A t \in dict_keys(term_to_mistakes) :
                          dict_getitem(term_to_mistakes', t) =
                              dict_getitem(term_to_mistakes, t) + (IF t = term THEN 1 ELSE 0)
                   /\ UNCHANGED <<term_to_definition, definition_to_term>>]_vars

\* C9 witness: a wrong answer has just been counted for one card of a deck
\* of two cards; the other card has no mistake.
C9_Witness ==
    /\ last.op = "ask"
    /\ ~last.raised
    /\ IsCardOf(term_to_definition, last.card)
    /\ last.answer # last.card.definition
    /\ Deck__len__(self) = 2
    /\ dict_getitem(term_to_mistakes, last.card.term) = 2
    /\ \E i \in DOMAIN term_to_mistakes : term_to_mistakes[i][2] = 0

\* C10: ask on a card of the deck returns (True, answer) exactly when the
\* answer is the card's definition; otherwise (False, t) with t the term
\* whose definition in the deck is the answer, t never the card's own term,
\* and (False, None) when no term of the deck has that definition.
C10_AskResult ==
    [][(last'.op = "ask" /\ ~last'.raised /\ IsCardOf(term_to_definition, last'.card)) =>
          LET card == last'.card
              answer == last'.answer
              matching == {t \in dict_keys(term_to_definition) :
                              dict_getitem(term_to_definition, t) = answer}
          IN  /\ (last'.ret = AskValue(TRUE, answer)) <=> (answer = card.definition)
              /\ answer # card.definition =>
                     /\ last'.ret.bool = FALSE
                     /\ IF matching = {}
                        THEN last'.ret.str = None
                        ELSE last'.ret.str \in matching \ {card.term}]_vars

\* C11: get_hardest_cards leaves the deck alone and returns ([], 0) when the
\* deck is empty or its largest mistake count is 0, and otherwise exactly the
\* terms whose count is the largest, each once, with that count.
C11_HardestCards ==
    [][last'.op = "get_hardest_cards" =>
          LET counts == {term_to_mistakes[i][2] : i \in DOMAIN term_to_mistakes}
              largest == IF counts = {} THEN 0
                         ELSE CHOOSE m \in counts : \A n \in counts : n <= m
              returned == last'.ret.list
          IN  /\ ~last'.raised
              /\ UNCHANGED deckvars
              /\ IF largest = 0
                 THEN returned = << >> /\ last'.ret.int = 0
                 ELSE /\ {returned[i] : i \in DOMAIN returned} =
                             {item[1] : item \in {it \in Items(term_to_mistakes) :
                                                      it[2] = largest}}
                      /\ Len(returned) = Cardinality({returned[i] : i \in DOMAIN returned})
                      /\ last'.ret.int = largest]_vars

\* C11 witness: get_hardest_cards has just returned two tied terms with a
\* count above 0.
C11_Witness ==
    /\ last.op = "get_hardest_cards"
    /\ Len(last.ret.list) = 2
    /\ last.ret.int > 0

\* C12: when a card whose count was 0 has been given N >= 1 wrong answers
\* in a row, each neither its definition nor any definition of the deck, and
\* no other term has N or more mistakes, get_hardest_cards returns that term
\* alone with the count N.
C12_HardestAfterWrongAnswers ==
    (/\ last.op = "get_hardest_cards"
     /\ last.streak >= 1
     /\ \A i \in DOMAIN term_to_mistakes :
            term_to_mistakes[i][1] # last.card.term => term_to_mistakes[i][2] < last.streak)
    => (last.ret.list = <<last.card.term>> /\ last.ret.int = last.streak)

\* C12 witness: get_hardest_cards has answered right after two such wrong
\* answers to one card while the other card of the deck has one mistake.
C12_Witness ==
    /\ last.op = "get_hardest_cards"
    /\ last.streak = 2
    /\ last.ret.list = <<last.card.term>>
    /\ \E i \in DOMAIN term_to_mistakes :
           term_to_mistakes[i][1] # last.card.term /\ term_to_mistakes[i][2] = 1

\* C13: reset_stats sets every count to 0, leaves both indices unchanged and
\* the count keys equal to the terms, and a get_hardest_cards called right
\* after it returns ([], 0).
C13_ResetStats ==
    [][/\ last'.op = "reset_stats" =>
              /\ ~last'.raised
              /\ UNCHANGED <<term_to_definition, definition_to_term>>
              /\ dict_keys(term_to_mistakes') = dict_keys(term_to_definition')
              /\ \A i \in DOMAIN term_to_mistakes' : term_to_mistakes'[i][2] = 0
       /\ (last.op = "reset_stats" /\ last'.op = "get_hardest_cards") =>
              (last'.ret.list = << >> /\ last'.ret.int = 0)]_vars

\* C13 witness: reset_stats has just run on a deck of two cards of which one
\* had mistakes.
C13_Witness ==
    /\ last.op = "reset_stats"
    /\ Deck__len__(self) = 2
    /\ \E i \in DOMAIN last.before.term_to_mistakes : last.before.term_to_mistakes[i][2] > 0

\* C14: a remove_card of the card that the call before it inserted succeeds
\* and leaves the three dicts exactly as they were before the insert_card.
C14_InsertThenRemove ==
    (last.op = "remove_card" /\ last.undoes) =>
        (~last.raised /\ self = last.before /\ Deck__len__(self) = Deck__len__(last.before))

\* C14 witness: a card has been inserted next to another card that has a
\* mistake, and removed again.
C14_Witness ==
    /\ last.op = "remove_card"
    /\ last.undoes
    /\ Deck__len__(last.before) = 1
    /\ last.before.term_to_mistakes[1][2] > 0

\* C15 as claimed: only an ask with a wrong answer for a term raises the
\* mistake count of that term while it stays in the deck.
C15_OnlyAskRaisesCounts ==
    \A t \in last.grew :
        last.op = "ask" /\ last.card.term = t /\ last.answer # last.card.definition

\* C15 as amended: a count of a term that stays in the deck is raised only by
\* an ask with a wrong answer for that term, or by an import_deck whose
\* snapshot holds that term (the count becomes the imported one).
C15_OnlyAskOrImportRaisesCounts ==
    \A t \in last.grew :
        \/ last.op = "ask" /\ last.card.term = t /\ last.answer # last.card.definition
        \/ last.op = "import_deck" /\ \E i \in DOMAIN last.json_string :
                                          last.json_string[i][1] = t

\* C15 witness: an import has raised the count of a term of the snapshot
\* while a card that is not in the snapshot has kept its mistakes.
C15_Witness ==
    /\ last.op = "import_deck"
    /\ last.grew # {}
    /\ Len(last.json_string) = 1
    /\ Deck__len__(self) = 2
    /\ term_to_mistakes[2][2] > 0

\* The two indices of a deck are exact inverses and share their key set with
\* the mistake counts.
Consistent(D) ==
    /\ \A t \in Terms, d \in Defs :
           IsCardOf(D.term_to_definition, Flashcard(t, d))
           <=> (dict_contains(D.definition_to_term, d)
                /\ dict_getitem(D.definition_to_term, d) = t)
    /\ dict_keys(D.term_to_definition) = dict_keys(D.term_to_mistakes)

\* C16: an import (by the action or by --import_from) of a file that was
\* read but does not hold an object of the expected shape leaves the three
\* dicts as they were, and the session stands at the prompt of loop.
C16_MalformedImportAborts ==
    [][(pc \in {"main", "loop"} /\ opened'.mode = "r" /\ opened'.ok /\ ~opened'.expected)
       => (UNCHANGED deckvars /\ pc' = "loop")]_vars

\* C17: no failure ends the session: nothing but the exit action ends the
\* loop, and when a file cannot be opened (a missing import source, an export
\* destination that cannot be written) a message is printed and the session
\* stands at the prompt of loop.
C17_NoFailureEndsSession ==
    /\ pc # "crashed"
    /\ pc = "exited" => action = "exit"
    /\ (opened.mode # None /\ ~opened.ok) => (pc = "loop" /\ message # None)

\* C18: when the exit action has ended the process, exactly one snapshot of
\* the deck has been written by it, to export_to, if a destination was
\* configured, and none otherwise.
C18_ExitExportsOnce ==
    (action = "exit" /\ pc \in {"exited", "crashed"}) =>
        dumped = IF export_to \in {None, ""}
                 THEN << >>
                 ELSE <<[file_name |-> export_to, json_string |-> export_deck(self).ret.dict]>>

\* C19: in a session get_random_card is called only on a deck that is not
\* empty and never fails, the for loop of _ask runs only on a deck that is
\* not empty, and every ask gets a card of the deck whose term has a mistake
\* count, so it never fails.
C19_NeverDrawsFromEmptyDeck ==
    /\ last.op = "get_random_card" => (~last.raised /\ Deck__len__(self) > 0)
    /\ pc \in {"ask_draw", "ask_answer"} => (Deck__len__(self) > 0 /\ frame.asks > 0)
    /\ last.op = "ask" => /\ ~last.raised
                          /\ IsCardOf(term_to_definition, last.card)
                          /\ dict_contains(term_to_mistakes, last.card.term)

\* C19 witness: the first of two questions has been answered wrongly and
\* counted, on a deck of two cards.
C19_Witness ==
    /\ last.op = "ask"
    /\ pc = "ask_draw"
    /\ frame.asks = 1
    /\ Deck__len__(self) = 2
    /\ last.grew # {}

\* C20: in _add insert_card is called only with a term and a definition that
\* are no keys, and never raises; in _remove remove_card is called with a
\* card of the deck and, on a consistent deck, deletes exactly the three
\* entries of that card without raising; the deck of a new session is
\* consistent, and every step of the add, remove, ask and reset stats
\* actions takes a consistent deck to a consistent deck and does not end the
\* session.
C20_DriverKeepsDeckConsistent ==
    [][/\ pc = "main" => Consistent(self)
       /\ (pc = "add_definition" /\ last'.op = "insert_card") =>
              /\ ~last'.raised
              /\ ~dict_contains(term_to_definition, last'.card.term)
              /\ ~dict_contains(definition_to_term, last'.card.definition)
       /\ (pc = "loop" /\ action' = "remove" /\ last'.op = "remove_card") =>
              /\ IsCardOf(term_to_definition, last'.card)
              /\ Consistent(self) =>
                     /\ ~last'.raised
                     /\ Items(term_to_definition') =
                            Items(term_to_definition)
                                \ {<<last'.card.term, last'.card.definition>>}
                     /\ Items(definition_to_term') =
                            Items(definition_to_term)
                                \ {<<last'.card.definition, last'.card.term>>}
                     /\ Items(term_to_mistakes') =
                            {item \in Items(term_to_mistakes) : item[1] # last'.card.term}
       /\ (pc # "main" /\ action' \in {"add", "remove", "ask", "reset stats"}
           /\ Consistent(self)) =>
              (Consistent(self') /\ pc' # "crashed")]_vars

\* C20 witness: _remove has removed one of the two cards of a consistent
\* deck that _add had filled.
C20_Witness ==
    /\ action = "remove"
    /\ last.op = "remove_card"
    /\ ~last.raised
    /\ Deck__len__(self) = 1
    /\ Consistent(self)
    /\ opened = NotOpened

====
